---- MODULE Spec2Model ----
(***************************************************************************)
(* Model of mipsevm/solutil.go: the Solidity source-map decoder            *)
(* (parseInstrMapping, ParseSourceMap) and the lookup SourceMap.Info used  *)
(* by SourceMapTracer.  Strings and files are sequences of byte values.    *)
(***************************************************************************)
EXTENDS Integers, Sequences, FiniteSets, TLC

(* ----------------------------- bounds ---------------------------------- *)
MaxCodeLen == 3
MaxRecords == 2

(* ------------------------- byte values used ---------------------------- *)
Colon == 58
Semi == 59
Minus == 45
Plus == 43
Tilde == 126
Newline == 10
Digit0 == 48
Digit9 == 57
PushFirst == 96
PushLast == 127

MaxInt32 == 2147483647
MinInt32 == (-2147483647) - 1
CutoffDiv10 == 214748364

(* ------------------------- strings.Split ------------------------------- *)
RECURSIVE FirstIndex(_, _, _)
FirstIndex(s, sep, k) ==
    IF k > Len(s) THEN 0
    ELSE IF s[k] = sep THEN k
    ELSE FirstIndex(s, sep, k + 1)

RECURSIVE Split(_, _)
Split(s, sep) ==
    LET p == FirstIndex(s, sep, 1) IN
    IF p = 0 THEN << s >>
    ELSE << SubSeq(s, 1, p - 1) >> \o Split(SubSeq(s, p + 1, Len(s)), sep)

(* ------------------ strconv.ParseInt(x, 10, 32) ------------------------ *)
(* Magnitude of a digit string, saturating: over = 0 exact value in acc,   *)
(* over = 1 exactly 2^31, over = 2 greater than 2^31, bad = non-digit.     *)
RECURSIVE Magnitude(_, _, _, _)
Magnitude(s, k, acc, over) ==
    IF k > Len(s) THEN [acc |-> acc, over |-> over, bad |-> FALSE]
    ELSE IF s[k] < Digit0 \/ s[k] > Digit9 THEN [acc |-> 0, over |-> 0, bad |-> TRUE]
    ELSE LET d == s[k] - Digit0 IN
         IF over > 0 THEN Magnitude(s, k + 1, acc, 2)
         ELSE IF acc < CutoffDiv10 \/ (acc = CutoffDiv10 /\ d <= 7)
              THEN Magnitude(s, k + 1, acc * 10 + d, 0)
         ELSE IF acc = CutoffDiv10 /\ d = 8
              THEN Magnitude(s, k + 1, acc, 1)
         ELSE Magnitude(s, k + 1, acc, 2)

(* ParseInt whose error is dropped *)
ParseIntNoErr(x) ==
    [val |-> IF Len(x) = 1 /\ x[1] >= Digit0 /\ x[1] <= Digit9 THEN x[1] - Digit0 ELSE 0,
     err |-> "nil"]

ParseInt(x) ==
    IF x = << >> THEN [val |-> 0, err |-> "syntax"]
    ELSE LET neg  == x[1] = Minus
             body == IF x[1] = Plus \/ x[1] = Minus THEN SubSeq(x, 2, Len(x)) ELSE x
             mg   == Magnitude(body, 1, 0, 0)
         IN  IF body = << >> \/ mg.bad THEN [val |-> 0, err |-> "syntax"]
             ELSE IF ~neg /\ mg.over >= 1 THEN [val |-> MaxInt32, err |-> "range"]
             ELSE IF neg /\ mg.over = 2 THEN [val |-> MinInt32, err |-> "range"]
             ELSE IF neg /\ mg.over = 1 THEN [val |-> MinInt32, err |-> "nil"]
             ELSE [val |-> IF neg THEN 0 - mg.acc ELSE mg.acc, err |-> "nil"]

(* --------------------------- InstrMapping ------------------------------ *)
ZeroInstr == [S |-> 0, L |-> 0, F |-> 0, J |-> 0, M |-> 0]

(* Lines 30-70 of parseInstrMapping: the fields in data overlaid on last,  *)
(* stopping at the first field whose parse sets err.                       *)
ParseFields(last, data) ==
    LET n == Len(data) IN
    IF n < 1 THEN [out |-> last, err |-> "nil"]
    ELSE IF n > 5 THEN [out |-> last, err |-> "length"]
    ELSE
    LET p0 == IF data[1] # << >> THEN ParseInt(data[1]) ELSE [val |-> last.S, err |-> "nil"]
        o0 == [last EXCEPT !.S = p0.val]
    IN
    IF n < 2 \/ p0.err # "nil" THEN [out |-> o0, err |-> p0.err]
    ELSE
    LET p1 == IF data[2] # << >> THEN ParseInt(data[2]) ELSE [val |-> o0.L, err |-> "nil"]
        o1 == [o0 EXCEPT !.L = p1.val]
    IN
    IF n < 3 \/ p1.err # "nil" THEN [out |-> o1, err |-> p1.err]
    ELSE
    LET p2 == IF data[3] # << >> THEN ParseInt(data[3]) ELSE [val |-> o1.F, err |-> "nil"]
        o2 == [o1 EXCEPT !.F = p2.val]
    IN
    IF n < 4 \/ p2.err # "nil" THEN [out |-> o2, err |-> p2.err]
    ELSE
    LET o3 == IF data[4] # << >> THEN [o2 EXCEPT !.J = data[4][1]] ELSE o2
    IN
    IF n < 5 THEN [out |-> o3, err |-> "nil"]
    ELSE
    LET p4 == IF data[5] # << >> THEN ParseInt(data[5]) ELSE [val |-> o3.M, err |-> "nil"]
    IN  [out |-> [o3 EXCEPT !.M = p4.val], err |-> p4.err]

(* parseInstrMapping with `out := InstrMapping{}` in place of `out := last` *)
parseInstrMappingFresh(last, v) == ParseFields(ZeroInstr, Split(v, Colon))

parseInstrMapping(last, v) == ParseFields(last, Split(v, Colon))

(* ------------------ rune iteration of `range datStr` ------------------- *)
IsCont(b) == b >= 128 /\ b <= 191

(* Number of bytes the range loop advances at 1-based position k: the      *)
(* length of a valid UTF-8 encoding starting there, or 1 for anything else.*)
RuneWidth(dat, k) ==
    LET b0   == dat[k]
        rem  == Len(dat) - k + 1
        size == IF b0 >= 194 /\ b0 <= 223 THEN 2
                ELSE IF b0 >= 224 /\ b0 <= 239 THEN 3
                ELSE IF b0 >= 240 /\ b0 <= 244 THEN 4
                ELSE 1
        lo   == IF b0 = 224 THEN 160 ELSE IF b0 = 240 THEN 144 ELSE 128
        hi   == IF b0 = 237 THEN 159 ELSE IF b0 = 244 THEN 143 ELSE 191
    IN  IF size = 1 \/ rem < size THEN 1
        ELSE IF dat[k + 1] < lo \/ dat[k + 1] > hi THEN 1
        ELSE IF size = 2 THEN 2
        ELSE IF ~IsCont(dat[k + 2]) THEN 1
        ELSE IF size = 3 THEN 3
        ELSE IF ~IsCont(dat[k + 3]) THEN 1
        ELSE 4

ZeroLineCol == [Line |-> 0, Col |-> 0]

(* The loop of lines 134-141; k - 1 is the byte index i of the iteration.  *)
RECURSIVE LineColLoop(_, _, _, _, _)
LineColLoop(dat, k, line, lastLinePos, out) ==
    IF k > Len(dat) THEN out
    ELSE LET i    == k - 1
             col  == i - lastLinePos
             w    == RuneWidth(dat, k)
             out2 == [out EXCEPT ![k] = [Line |-> line, Col |-> col]]
         IN  IF w = 1 /\ dat[k] = Newline
             THEN LineColLoop(dat, k + w, line + 1, i, out2)
             ELSE LineColLoop(dat, k + w, line, lastLinePos, out2)

PositionTable(dat) ==
    LineColLoop(dat, 1, 1, 0, [j \in 1 .. Len(dat) |-> ZeroLineCol])

NilTable == [nil |-> TRUE, tbl |-> << >>]

HasTildePrefix(s) == Len(s) >= 1 /\ s[1] = Tilde

(* ------------------------- instruction length -------------------------- *)
(* InstLen without the "+ 1" of pushDataLen *)
InstLenShort(inst) ==
    IF inst >= PushFirst /\ inst <= PushLast
    THEN 1 + (inst - PushFirst)
    ELSE 1

InstLen(inst) ==
    IF inst >= PushFirst /\ inst <= PushLast
    THEN 1 + (inst - PushFirst + 1)
    ELSE 1

RECURSIVE Repeat(_, _)
Repeat(x, n) == IF n <= 0 THEN << >> ELSE << x >> \o Repeat(x, n - 1)

(* ----------------------------- SourceMap.Info -------------------------- *)
EmptyName == << >>
UnknownName == << 117, 110, 107, 110, 111, 119, 110 >>

(* Info testing instr.S before instr.F *)
InfoStartFirst(s, pc) ==
    LET instr == s.Instr[pc + 1] IN
    IF instr.S < 0 \/ instr.F < 0
    THEN [source |-> EmptyName, line |-> 0, col |-> 0, panic |-> FALSE]
    ELSE IF instr.F >= Len(s.Sources)
    THEN [source |-> UnknownName, line |-> 0, col |-> 0, panic |-> FALSE]
    ELSE LET source == s.Sources[instr.F + 1] IN
         IF s.PosData[instr.F + 1].nil
         THEN [source |-> source, line |-> 0, col |-> 0, panic |-> FALSE]
         ELSE IF instr.S >= Len(s.PosData[instr.F + 1].tbl)
         THEN [source |-> EmptyName, line |-> 0, col |-> 0, panic |-> TRUE]
         ELSE LET lc == s.PosData[instr.F + 1].tbl[instr.S + 1] IN
              [source |-> source, line |-> lc.Line, col |-> lc.Col, panic |-> FALSE]

Info(s, pc) ==
    LET instr == s.Instr[pc + 1] IN
    IF instr.F < 0
    THEN [source |-> EmptyName, line |-> 0, col |-> 0, panic |-> FALSE]
    ELSE IF instr.F >= Len(s.Sources)
    THEN [source |-> UnknownName, line |-> 0, col |-> 0, panic |-> FALSE]
    ELSE LET source == s.Sources[instr.F + 1] IN
         IF instr.S < 0
         THEN [source |-> source, line |-> 0, col |-> 0, panic |-> FALSE]
         ELSE IF s.PosData[instr.F + 1].nil
         THEN [source |-> source, line |-> 0, col |-> 0, panic |-> FALSE]
         ELSE IF instr.S >= Len(s.PosData[instr.F + 1].tbl)
         THEN [source |-> EmptyName, line |-> 0, col |-> 0, panic |-> TRUE]
         ELSE LET lc == s.PosData[instr.F + 1].tbl[instr.S + 1] IN
              [source |-> source, line |-> lc.Line, col |-> lc.Col, panic |-> FALSE]

(* ------------------------------ inputs --------------------------------- *)
(* Record strings of the mapping: "3", "", "1:x:7", "-1", "::-1:zz",       *)
(* "::::2147483648".                                                       *)
RecordPool ==
    { << 51 >>,
      << >>,
      << 49, 58, 120, 58, 55 >>,
      << 45, 49 >>,
      << 58, 58, 45, 49, 58, 122, 122 >>,
      << 58, 58, 58, 58, 50, 49, 52, 55, 52, 56, 51, 54, 52, 56 >> }

(* Opcodes: 0x5f, PUSH1 and PUSH32, the ends of the push range.            *)
OpcodePool == { 95, 96, 127 }

(* File names "a", "~g" and "m"; only "a" exists on disk.                  *)
NameA == << 97 >>
NameGen == << 126, 103 >>
NameMissing == << 109 >>
NamePool == { NameA, NameGen, NameMissing }

(* Source lists with the contents of file "a": "ab\ncd", the empty file,   *)
(* and "é\nx" in UTF-8.                                                    *)
SourceConfigs ==
    { [sources |-> << >>, dat |-> << >>],
      [sources |-> << NameA >>, dat |-> << 97, 98, 10, 99, 100 >>],
      [sources |-> << NameA >>, dat |-> << >>],
      [sources |-> << NameA >>, dat |-> << 195, 169, 10, 120 >>],
      [sources |-> << NameGen, NameA >>, dat |-> << 97, 98, 10, 99, 100 >>],
      [sources |-> << NameA, NameMissing >>, dat |-> << 97, 98, 10, 99, 100 >>] }

SeqsUpTo(S, lo, hi) == UNION { [1 .. n -> S] : n \in lo .. hi }

RECURSIVE JoinRecords(_)
JoinRecords(recs) ==
    IF Len(recs) = 0 THEN << >>
    ELSE IF Len(recs) = 1 THEN recs[1]
    ELSE recs[1] \o << Semi >> \o JoinRecords(Tail(recs))

NoFile == [ok |-> FALSE, dat |-> << >>]

(* -------------------------------- state -------------------------------- *)
VARIABLES
    sources,      \* argument: source file names
    bytecode,     \* argument: the bytecode bytes
    sourceMap,    \* argument: the mapping string
    disk,         \* the files os.ReadFile can see: name -> contents
    pc,           \* position in ParseSourceMap / the unit harness
    PosData,      \* srcMap.PosData
    Instr,        \* srcMap.Instr
    i,            \* bytecode offset of the walk
    instIndex,    \* instruction counter of the walk
    lastInstr,    \* the `last` argument handed to parseInstrMapping
    instMapping,  \* the record string handed to parseInstrMapping
    m,            \* the record parseInstrMapping returned
    merr,         \* the error parseInstrMapping returned
    ret,          \* what ParseSourceMap returned: the Index (or nil) and the error
    stdout,       \* values printed by the "out of instructions" diagnostic
    info          \* result of the last Info call made by the tracer

vars == << sources, bytecode, sourceMap, disk, pc, PosData, Instr, i, instIndex,
           lastInstr, instMapping, m, merr, ret, stdout, info >>

inputs == << sources, bytecode, sourceMap, disk >>

instructions == Split(sourceMap, Semi)

NilIndex == [nil |-> TRUE, Sources |-> << >>, PosData |-> << >>, Instr |-> << >>]
NoRet == [index |-> NilIndex, err |-> "pending"]
NoInfo == [source |-> EmptyName, line |-> 0, col |-> 0, panic |-> FALSE, pc |-> -1]

Init ==
    /\ \E c \in SourceConfigs :
          /\ sources = c.sources
          /\ disk = [n \in NamePool |->
                        IF n = NameA THEN [ok |-> TRUE, dat |-> c.dat] ELSE NoFile]
    /\ bytecode \in SeqsUpTo(OpcodePool, 0, MaxCodeLen)
    /\ sourceMap \in { JoinRecords(r) : r \in SeqsUpTo(RecordPool, 1, MaxRecords) }
    /\ pc = "sources"
    /\ PosData = << >>
    /\ Instr = << >>
    /\ i = 0
    /\ instIndex = 0
    /\ lastInstr = ZeroInstr
    /\ instMapping = << >>
    /\ m = ZeroInstr
    /\ merr = "nil"
    /\ ret = NoRet
    /\ stdout = << >>
    /\ info = NoInfo

(* One iteration of the loop over sources, lines 120-143.                  *)
ReadSource ==
    /\ pc = "sources"
    /\ Len(PosData) < Len(sources)
    /\ LET s == sources[Len(PosData) + 1] IN
       IF HasTildePrefix(s)
       THEN /\ PosData' = Append(PosData, NilTable)
            /\ UNCHANGED << pc, ret >>
       ELSE IF ~disk[s].ok
       THEN /\ pc' = "failed"
            /\ ret' = [index |-> NilIndex, err |-> "read"]
            /\ UNCHANGED PosData
       ELSE /\ PosData' = Append(PosData, [nil |-> FALSE, tbl |-> PositionTable(disk[s].dat)])
            /\ UNCHANGED << pc, ret >>
    /\ UNCHANGED << inputs, Instr, i, instIndex, lastInstr, instMapping, m, merr,
                    stdout, info >>

(* Lines 145-148: the walk starts once every source was indexed.           *)
StartWalk ==
    /\ pc = "sources"
    /\ Len(PosData) = Len(sources)
    /\ pc' = "walk"
    /\ i' = 0
    /\ instIndex' = 0
    /\ lastInstr' = ZeroInstr
    /\ UNCHANGED << inputs, PosData, Instr, instMapping, m, merr, ret, stdout, info >>

(* One iteration of the loop over the bytecode, lines 149-175.             *)
WalkInstr ==
    /\ pc = "walk"
    /\ i < Len(bytecode)
    /\ LET inst    == bytecode[i + 1]
           instLen == InstLen(inst)
           under   == instIndex >= Len(instructions)
           rec     == IF under THEN << >> ELSE instructions[instIndex + 1]
           r       == parseInstrMapping(lastInstr, rec)
       IN  /\ instMapping' = rec
           /\ stdout' = IF under THEN Append(stdout, instIndex - Len(instructions))
                        ELSE stdout
           /\ m' = r.out
           /\ merr' = r.err
           /\ IF r.err # "nil"
              THEN /\ pc' = "failed"
                   /\ ret' = [index |-> NilIndex, err |-> "parse"]
                   /\ UNCHANGED << Instr, i, instIndex >>
              ELSE /\ Instr' = Instr \o Repeat(r.out, instLen)
                   /\ i' = i + instLen
                   /\ instIndex' = instIndex + 1
                   /\ UNCHANGED << pc, ret >>
    /\ UNCHANGED << inputs, PosData, lastInstr, info >>

(* Line 176: the loop is over, the Index is returned.                      *)
Return ==
    /\ pc = "walk"
    /\ i >= Len(bytecode)
    /\ pc' = "done"
    /\ ret' = [index |-> [nil |-> FALSE, Sources |-> sources, PosData |-> PosData,
                          Instr |-> Instr],
               err |-> "nil"]
    /\ UNCHANGED << inputs, PosData, Instr, i, instIndex, lastInstr, instMapping,
                    m, merr, stdout, info >>

(* SourceMapTracer.CaptureState / CaptureFault: Info at a program counter  *)
(* of the traced bytecode.                                                 *)
CaptureState ==
    /\ pc = "done"
    /\ \E off \in 0 .. Len(bytecode) - 1 :
          LET r == Info(ret.index, off) IN
          info' = [source |-> r.source, line |-> r.line, col |-> r.col,
                   panic |-> r.panic, pc |-> off]
    /\ UNCHANGED << inputs, pc, PosData, Instr, i, instIndex, lastInstr,
                    instMapping, m, merr, ret, stdout >>

Next == ReadSource \/ StartWalk \/ WalkInstr \/ Return \/ CaptureState

Spec == Init /\ [][Next]_vars

(* --------------- unit harness for parseInstrMapping -------------------- *)
(* Previous records handed in as `last`.                                   *)
LastPool ==
    { ZeroInstr,
      [S |-> 1, L |-> 2, F |-> 0, J |-> 45, M |-> 0],
      [S |-> 1, L |-> 2, F |-> 0, J |-> 105, M |-> 0],
      [S |-> -1, L |-> 9, F |-> -1, J |-> 111, M |-> 6],
      [S |-> 40, L |-> 41, F |-> 42, J |-> 43, M |-> 44] }

(* Record strings handed in as v: those of RecordPool and "1:2:0:-:0",     *)
(* ":::i:", "::1", "::::", "7:8", ":4", "-5:0:-1:o:2", "2147483647",       *)
(* "-2147483648:1", "x", "-", "0:0:0:-:0:0", "1::2:-:y", "::2:".           *)
UnitRecordPool ==
    RecordPool \cup
    { << 49, 58, 50, 58, 48, 58, 45, 58, 48 >>,
      << 58, 58, 58, 105, 58 >>,
      << 58, 58, 49 >>,
      << 58, 58, 58, 58 >>,
      << 55, 58, 56 >>,
      << 58, 52 >>,
      << 45, 53, 58, 48, 58, 45, 49, 58, 111, 58, 50 >>,
      << 50, 49, 52, 55, 52, 56, 51, 54, 52, 55 >>,
      << 45, 50, 49, 52, 55, 52, 56, 51, 54, 52, 56, 58, 49 >>,
      << 120 >>,
      << 45 >>,
      << 48, 58, 48, 58, 48, 58, 45, 58, 48, 58, 48 >>,
      << 49, 58, 58, 50, 58, 45, 58, 121 >>,
      << 58, 58, 50, 58 >> }

InitParse ==
    /\ lastInstr \in LastPool
    /\ instMapping \in UnitRecordPool
    /\ pc = "unit"
    /\ m = ZeroInstr
    /\ merr = "nil"
    /\ sources = << >>
    /\ bytecode = << >>
    /\ sourceMap = << >>
    /\ disk = [n \in NamePool |-> NoFile]
    /\ PosData = << >>
    /\ Instr = << >>
    /\ i = 0
    /\ instIndex = 0
    /\ ret = NoRet
    /\ stdout = << >>
    /\ info = NoInfo

(* One call parseInstrMapping(lastInstr, instMapping).                     *)
ApplyParse ==
    /\ pc = "unit"
    /\ LET r == parseInstrMapping(lastInstr, instMapping) IN
          /\ m' = r.out
          /\ merr' = r.err
    /\ pc' = "applied"
    /\ UNCHANGED << inputs, PosData, Instr, i, instIndex, lastInstr, instMapping,
                    ret, stdout, info >>

NextParse == ApplyParse

SpecParse == InitParse /\ [][NextParse]_vars

(* ======================= properties of the claims ====================== *)

(* Decimal fields occurring in the pools, with the integer each denotes.   *)
NumTokens ==
    { [txt |-> << 48 >>, val |-> 0],
      [txt |-> << 49 >>, val |-> 1],
      [txt |-> << 50 >>, val |-> 2],
      [txt |-> << 51 >>, val |-> 3],
      [txt |-> << 52 >>, val |-> 4],
      [txt |-> << 55 >>, val |-> 7],
      [txt |-> << 56 >>, val |-> 8],
      [txt |-> << 45, 49 >>, val |-> -1],
      [txt |-> << 45, 53 >>, val |-> -5],
      [txt |-> << 50, 49, 52, 55, 52, 56, 51, 54, 52, 55 >>, val |-> MaxInt32],
      [txt |-> << 45, 50, 49, 52, 55, 52, 56, 51, 54, 52, 56 >>, val |-> MinInt32] }

IsToken(x) == \E t \in NumTokens : t.txt = x
TokVal(x) == (CHOOSE t \in NumTokens : t.txt = x).val

NumFields(v) == Len(Split(v, Colon))
FieldAt(v, k) == IF k <= NumFields(v) THEN Split(v, Colon)[k] ELSE << >>
NumericFields == { 1, 2, 3, 5 }
BadNumeric(v, k) == FieldAt(v, k) # << >> /\ ~IsToken(FieldAt(v, k))
BadRecord(v) == \E k \in NumericFields : BadNumeric(v, k)

WellFormedRecord(v) ==
    /\ NumFields(v) <= 5
    /\ ~BadRecord(v)
    /\ Len(FieldAt(v, 4)) <= 1

Get(r, k) ==
    CASE k = 1 -> r.S [] k = 2 -> r.L [] k = 3 -> r.F [] k = 4 -> r.J [] k = 5 -> r.M

(* last with exactly the non-empty fields of v written over it.            *)
ExpectedField(last, v, k) ==
    IF FieldAt(v, k) = << >> THEN Get(last, k)
    ELSE IF k = 4 THEN FieldAt(v, 4)[1]
    ELSE TokVal(FieldAt(v, k))

ExpectedOverlay(last, v) ==
    [S |-> ExpectedField(last, v, 1), L |-> ExpectedField(last, v, 2),
     F |-> ExpectedField(last, v, 3), J |-> ExpectedField(last, v, 4),
     M |-> ExpectedField(last, v, 5)]

(* The instructions of the bytecode, read off the opcodes alone.           *)
WidthOf(op) == IF op >= 96 /\ op <= 127 THEN 2 + (op - 96) ELSE 1

RECURSIVE StartsFrom(_, _)
StartsFrom(code, off) ==
    IF off >= Len(code) THEN << >>
    ELSE << off >> \o StartsFrom(code, off + WidthOf(code[off + 1]))

InstrStarts == StartsFrom(bytecode, 0)
NumInstrs == Len(InstrStarts)
SpanOf(n) ==
    (InstrStarts[n + 1] + 1) .. (InstrStarts[n + 1] + WidthOf(bytecode[InstrStarts[n + 1] + 1]))
RecordOf(n) == IF n < Len(instructions) THEN instructions[n + 1] ELSE << >>
EntryOf(n) == ret.index.Instr[InstrStarts[n + 1] + 1]

(* C1: in a built Index the mapping of instruction n is the mapping of     *)
(* instruction n-1 with only the fields present in record n overwritten;   *)
(* instruction 0 is overlaid on the all-zero record.                       *)
C1_InheritsPreviousRecord ==
    pc = "done" =>
        \A n \in 0 .. NumInstrs - 1 :
            n < Len(instructions) =>
            EntryOf(n) = ExpectedOverlay(IF n = 0 THEN ZeroInstr ELSE EntryOf(n - 1),
                                         RecordOf(n))

(* C2: a built Index has exactly one instruction-table entry per bytecode  *)
(* byte, whatever the opcodes and the length of the bytecode.              *)
C2_OneEntryPerByte ==
    pc = "done" => Len(ret.index.Instr) = Len(bytecode)

(* C3: with fewer records than instructions the build is not failed by the *)
(* shortfall, and every instruction beyond the supplied records has        *)
(* entries equal to the last record decoded from the mapping string.       *)
C3_UnderflowReusesLastRecord ==
    /\ (pc = "failed" /\ ret.err = "parse") => instIndex < Len(instructions)
    /\ (pc = "done" /\ NumInstrs > Len(instructions)) =>
          \A n \in Len(instructions) .. NumInstrs - 1 :
             \A j \in SpanOf(n) :
                ret.index.Instr[j] = EntryOf(Len(instructions) - 1)

(* C4: Info at any offset below len(bytecode) of a built Index completes   *)
(* without an out-of-range access, whatever start and fileIndex were       *)
(* encoded and however long the position table is.                         *)
C4_InfoNeverFails ==
    info.pc >= 0 => ~info.panic

(* The position of byte offset j - 1: line 1 + newlines before it, column  *)
(* counted from the first byte of its line.                                *)
NewlinesBefore(dat, j) == { q \in 1 .. j - 1 : dat[q] = Newline }
LineStart(dat, j) ==
    IF NewlinesBefore(dat, j) = {} THEN 0
    ELSE CHOOSE q \in NewlinesBefore(dat, j) : \A r \in NewlinesBefore(dat, j) : r <= q
ExpectedPosition(dat, j) ==
    [Line |-> 1 + Cardinality(NewlinesBefore(dat, j)), Col |-> (j - 1) - LineStart(dat, j)]

SingleByteText(dat) == \A q \in 1 .. Len(dat) : dat[q] < 128

(* C5: the position table of a readable source gives every byte offset     *)
(* line = 1 + newlines before it and column = bytes since the start of its *)
(* line, so the first byte after a newline has column 0 and "ab\ncd" maps  *)
(* to (1,0), (1,1), (1,2), (2,0), (2,1).  Stated for texts of single-byte  *)
(* characters; the later bytes of longer characters are the subject of C6. *)
C5_LineAndColumn ==
    \A k \in 1 .. Len(PosData) :
        (~PosData[k].nil /\ SingleByteText(disk[sources[k]].dat)) =>
            \A j \in 1 .. Len(PosData[k].tbl) :
                PosData[k].tbl[j] = ExpectedPosition(disk[sources[k]].dat, j)

(* C6: the position table of a readable source has one entry per byte of   *)
(* the file and every entry, also those of the later bytes of a multi-byte *)
(* character, is a computed position with line >= 1.                       *)
C6_EveryByteHasPosition ==
    \A k \in 1 .. Len(PosData) :
        ~PosData[k].nil =>
            /\ Len(PosData[k].tbl) = Len(disk[sources[k]].dat)
            /\ \A j \in 1 .. Len(PosData[k].tbl) : PosData[k].tbl[j].Line >= 1

Answer(name, line, col) == [source |-> name, line |-> line, col |-> col]
Answered == [source |-> info.source, line |-> info.line, col |-> info.col]

Carries(e, v) ==
    \A k \in 1 .. 5 :
        FieldAt(v, k) # << >> => Get(e, k) = ExpectedField(ZeroInstr, v, k)

(* C8: an instruction with opcode 0x60+k contributes 2+k identical entries *)
(* and any other opcode one; one record is consumed per instruction, so    *)
(* push immediates are neither read as opcodes nor given a record.         *)
C8_PushExpansion ==
    pc \in { "walk", "done" } =>
        /\ instIndex <= NumInstrs
        /\ Len(Instr) = i
        /\ i = IF instIndex < NumInstrs THEN InstrStarts[instIndex + 1]
               ELSE IF NumInstrs = 0 THEN 0
               ELSE InstrStarts[NumInstrs] + WidthOf(bytecode[InstrStarts[NumInstrs] + 1])
        /\ \A n \in 0 .. instIndex - 1 :
              /\ \A j \in SpanOf(n) : Instr[j] = Instr[InstrStarts[n + 1] + 1]
              /\ Carries(Instr[InstrStarts[n + 1] + 1], RecordOf(n))

C8_Witness ==
    /\ pc = "walk"
    /\ instIndex = 2
    /\ bytecode = << 96, 127, 95 >>
    /\ Len(Instr) = 3
    /\ Instr[1] = Instr[2]
    /\ Instr[3] # Instr[2]

(* C9: a consumed record with a non-empty field 0, 1, 2 or 4 that is not a *)
(* signed 32-bit decimal integer stops the decoding of that record at the  *)
(* first such field and makes ParseSourceMap return an error and no Index; *)
(* field 3 never causes a failure.                                         *)
C9_BadFieldAbortsBuild ==
    /\ pc = "failed" => ret.index.nil /\ ret.err \in { "read", "parse" }
    /\ pc = "done" => ~ret.index.nil /\ ret.err = "nil"
    /\ pc \in { "walk", "done" } =>
          \A n \in 0 .. instIndex - 1 : ~BadRecord(RecordOf(n))
    /\ (pc = "failed" /\ ret.err = "parse") =>
          /\ instMapping = RecordOf(instIndex)
          /\ NumFields(instMapping) > 5 \/ \E k \in NumericFields :
                /\ BadNumeric(instMapping, k)
                /\ \A h \in 1 .. k - 1 :
                      /\ ~(h \in NumericFields /\ BadNumeric(instMapping, h))
                      /\ Get(m, h) = ExpectedField(lastInstr, instMapping, h)
                /\ \A h \in k + 1 .. 5 : Get(m, h) = Get(lastInstr, h)

C9_Witness ==
    /\ pc = "failed"
    /\ ret.err = "parse"
    /\ ret.index.nil
    /\ instIndex = 1
    /\ Len(Instr) > 0
    /\ instMapping = << 49, 58, 120, 58, 55 >>
    /\ m.S = 1
    /\ m.F = 0

(* C10: for a well-formed record v of at most 5 fields,                    *)
(* parseInstrMapping(last, v) is last with exactly the non-empty fields of *)
(* v overwritten; threading "1:2:0:-:0", ":::i:", "3" from the zero record *)
(* gives (1,2,0,'-',0), (1,2,0,'i',0), (3,2,0,'i',0).                      *)
C10_OverlayOnLast ==
    pc = "applied" =>
        /\ WellFormedRecord(instMapping) =>
              /\ merr = "nil"
              /\ m = ExpectedOverlay(lastInstr, instMapping)
        /\ instMapping = << >> => m = lastInstr
        /\ (lastInstr = ZeroInstr /\ instMapping = << 49, 58, 50, 58, 48, 58, 45, 58, 48 >>)
              => m = [S |-> 1, L |-> 2, F |-> 0, J |-> 45, M |-> 0]
        /\ (lastInstr = [S |-> 1, L |-> 2, F |-> 0, J |-> 45, M |-> 0]
              /\ instMapping = << 58, 58, 58, 105, 58 >>)
              => m = [S |-> 1, L |-> 2, F |-> 0, J |-> 105, M |-> 0]
        /\ (lastInstr = [S |-> 1, L |-> 2, F |-> 0, J |-> 105, M |-> 0]
              /\ instMapping = << 51 >>)
              => m = [S |-> 3, L |-> 2, F |-> 0, J |-> 105, M |-> 0]

C10_Witness ==
    /\ pc = "applied"
    /\ lastInstr = [S |-> 1, L |-> 2, F |-> 0, J |-> 105, M |-> 0]
    /\ instMapping = << 51 >>
    /\ m = [S |-> 3, L |-> 2, F |-> 0, J |-> 105, M |-> 0]
    /\ merr = "nil"

====
